---- MODULE Spec2Model ----
(***************************************************************************)
(* Record Flags: the recordFlags parent component (its source is quoted    *)
(* in README.md) and the recordFlagFetcher child component.                *)
(*                                                                         *)
(* Strings are modelled by what the code does with them: a flag body is    *)
(* the sequence of its "\n"-separated lines (<<>> is a null body), string  *)
(* concatenation with "\n" is sequence concatenation, and                  *)
(* JSON.stringify(x).includes("Component Error") is a search of the        *)
(* serialized fields for that text.                                        *)
(*                                                                         *)
(* Objects are references: the fetcher hands its own flag objects to the   *)
(* parent in the event detail, so existingFlag holds references into the   *)
(* fetcher's `list`, and a write to existingFlag[0].body is a write to     *)
(* that fetcher's object.                                                  *)
(*                                                                         *)
(* Spec is the component inserted once, with its runs and refreshes;       *)
(* SpecLifecycle adds its removal from the DOM and re-insertion; SpecUI is *)
(* one run with the badge and popover events of the fetchers' flags.       *)
(***************************************************************************)
EXTENDS Integers, Sequences, FiniteSets, TLC

\* ---- bound ----
\* the size of a behaviour: runs started + fetchers created + flags returned
\* + badge and popover events handled
MaxWork == 6

\* ---- values ----
CE == "Component Error"
NoBody == <<>>      \* a null body
NoButtons == {}     \* null buttons; a button array b is {b}

\* the css classes of the flag variants
varientCSS ==
  [NORMAL |-> "slds-badge slds-badge_inverse",
   SUCCESS |-> "slds-badge slds-theme_success",
   WARNING |-> "slds-badge slds-theme_warning",
   ERROR |-> "slds-badge slds-theme_error"]

\* what invokeFetcher may return for one flag: a regular flag, or the flag
\* that reports a failed unit with its reason in the body
FlagValues ==
  { [variant |-> "WARNING", header |-> "Open Opportunities", body |-> NoBody, buttons |-> NoButtons],
    [variant |-> "ERROR", header |-> CE, body |-> <<"A">>, buttons |-> NoButtons],
    [variant |-> "ERROR", header |-> CE, body |-> <<"B">>, buttons |-> NoButtons] }

RECURSIVE SeqsUpTo(_, _)
SeqsUpTo(S, n) ==
  IF n = 0 THEN { <<>> }
  ELSE LET shorter == SeqsUpTo(S, n - 1)
       IN shorter \cup { Append(s, x) : s \in { t \in shorter : Len(t) = n - 1 }, x \in S }

\* the rejection reasons of an Apex call: an error with body.message; the
\* other shapes handleError tells apart are an error with
\* body.output.errors ("body.output.errors") and one with no body, such as
\* the TypeError a handler throws ("TypeError")
ApexErrors == { "body.message" }

\* how a promise can settle: fulfilled with a list, fulfilled with null
\* (isNull), or rejected with an error
Fulfilled(data) == [kind |-> "fulfilled", isNull |-> FALSE, value |-> data, error |-> "none"]
FulfilledNull == [kind |-> "fulfilled", isNull |-> TRUE, value |-> <<>>, error |-> "none"]
Rejected(e) == [kind |-> "rejected", isNull |-> FALSE, value |-> <<>>, error |-> e]
NotSettled == [kind |-> "pending", isNull |-> FALSE, value |-> <<>>, error |-> "none"]

\* the flag values of the fetchers whose badges are hovered and clicked: one
\* with neither body nor buttons, one whose body is the empty string, one
\* with a body, one with buttons
UIFlagValues ==
  { [variant |-> "WARNING", header |-> "Open Opportunities", body |-> NoBody,
     buttons |-> NoButtons],
    [variant |-> "ERROR", header |-> "Overdue", body |-> <<"">>,
     buttons |-> NoButtons],
    [variant |-> "NORMAL", header |-> "Open Cases", body |-> <<"3 cases">>,
     buttons |-> NoButtons],
    [variant |-> "SUCCESS", header |-> "Contract", body |-> NoBody,
     buttons |-> { << [name |-> "View", url |-> "/contract"] >> }] }

\* the results such a fetcher's getFlags call returns, with at most n flags
UIOutcomes(n) == { Fulfilled(d) : d \in SeqsUpTo(UIFlagValues, n) }

\* an event of the badge or popover with data-div-id key in fetcher c
Event(type, c, key) == [type |-> type, c |-> c, key |-> key]
NoEvent == Event("none", <<0, 0>>, 0)

\* the ways a getFlags promise can settle, with at most n flags
Outcomes(n) ==
  { Fulfilled(d) : d \in SeqsUpTo(FlagValues, n) }
    \cup { FulfilledNull } \cup { Rejected(e) : e \in ApexErrors }

VARIABLES
  connected,         \* the parent component is in the DOM
  refreshHandlerID,  \* parent: the registered refresh handler ("none" when unset)
  haveFlags,         \* parent field
  haveErrors,        \* parent field
  listOfActiveMdt,   \* parent field: the unit descriptors of the accepted response
  existingFlag,      \* parent field: references to the flag objects pushed into it
  record,            \* parent field: the shared payload (0 while undefined)
  toasts,            \* parent: the messages of the ShowToastEvents it dispatched
  calls,             \* calls[k]: state of the k-th getActiveFlagsMdt promise
  runs,              \* history: runs started (initial activation + refreshes)
  fetchers,          \* the recordFlagFetcher components; <<k, i>> is the one
                     \* rendered for the i-th descriptor of the k-th response
  failureReasons,    \* history: the reasons of the failure flags units returned
  refreshPromises,   \* the promises handleRefresh has returned
  registry,          \* the refresh module: the ids of the handlers registered with it
  pointerOver,       \* history: the badge the pointer is over, {} or {<<fetcher, key>>}
  uiEvents,          \* history: the number of badge and popover events handled
  lastEvent          \* history: the last badge or popover event handled

vars == <<connected, refreshHandlerID, haveFlags, haveErrors, listOfActiveMdt,
          existingFlag, record, toasts, calls, runs, fetchers, failureReasons,
          refreshPromises, registry, pointerOver, uiEvents, lastEvent>>

\* ---------------------------------------------------------------------
\* recordFlagFetcher
\* ---------------------------------------------------------------------

\* JSON.stringify(x).includes("Component Error") for one flag (or flag value)
StringifyIncludes(x) ==
  \/ x.header = CE
  \/ \E i \in 1..Len(x.body) : x.body[i] = CE

\* a + "\n" + b on bodies; a null body prints as "null"
Lines(b) == IF b = NoBody THEN <<"null">> ELSE b
\* mutant: the incoming body is put in front (b + "\n" + a)
ConcatNewline_prepend(a, b) == Lines(b) \o Lines(a)

ConcatNewline(a, b) == Lines(a) \o Lines(b)

\* the flag object handleRecordFlags builds from value at index (0-based)
makeFlag(value, index) ==
  [variant |-> value.variant, header |-> value.header, body |-> value.body,
   buttons |-> { [k \in 1..Len(b) |-> [name |-> b[k].name, url |-> b[k].url, key |-> k - 1]] :
                 b \in value.buttons },
   key |-> index, showDetails |-> FALSE, varientCSS |-> varientCSS[value.variant],
   hasButtons |-> value.buttons # NoButtons, isClicked |-> FALSE]

\* the error message handleError composes
errorMessage(error) ==
  IF error = "body.output.errors" THEN <<"Something went wrong in recordFlags! ", "errors[0].message">>
  ELSE IF error = "body.message" THEN <<"Something went wrong in recordFlags! ", "body.message">>
  ELSE <<"Something went wrong in recordFlags! ">>

\* a fetcher as its constructor leaves it, with the properties its parent set
newFetcher(run, sharedData, mdt) ==
  [run |-> run, record |-> sharedData, mdtRecord |-> mdt,
   errorRecordFlag |-> {}, listOfRecordFlags |-> <<>>, list |-> <<>>, loading |-> TRUE,
   status |-> "created", result |-> NotSettled, getFlagsCalls |-> 0, handled |-> 0,
   events |-> 0, delivered |-> 0,
   toasts |-> <<>>]

\* !flag.body: the body is null or the empty string
bodyFalsy(body) == body = NoBody \/ body = <<"">>

\* !flag.body && !flag.hasButtons
noDetails(flag) == bodyFalsy(flag.body) /\ ~flag.hasButtons

\* mutant: a click shows the popover whatever the flag holds
handleBadgeClick_alwaysShow(flags, elementKey) ==
  [j \in 1..Len(flags) |->
     IF flags[j].key = elementKey
     THEN [flags[j] EXCEPT !.showDetails = TRUE, !.isClicked = TRUE]
     ELSE flags[j]]

\* handleBadgeClick(event) on the flags, elementKey being the event's key
handleBadgeClick(flags, elementKey) ==
  [j \in 1..Len(flags) |->
     IF flags[j].key = elementKey
     THEN [flags[j] EXCEPT !.showDetails = IF noDetails(flags[j]) THEN FALSE ELSE TRUE,
                           !.isClicked = TRUE]
     ELSE flags[j]]

\* mutant: the handler toggles the popover of a clicked flag as well
handleMouseOver_unguarded(flags, elementKey) ==
  [j \in 1..Len(flags) |->
     IF flags[j].key = elementKey
     THEN [flags[j] EXCEPT !.showDetails = IF noDetails(flags[j]) THEN FALSE ELSE ~@]
     ELSE flags[j]]

\* handleMouseOver(event)
handleMouseOver(flags, elementKey) ==
  [j \in 1..Len(flags) |->
     IF ~flags[j].isClicked /\ flags[j].key = elementKey
     THEN [flags[j] EXCEPT !.showDetails = IF noDetails(flags[j]) THEN FALSE ELSE ~@]
     ELSE flags[j]]

\* handleMouseOut(event)
handleMouseOut(flags, elementKey) ==
  [j \in 1..Len(flags) |->
     IF ~flags[j].isClicked /\ flags[j].key = elementKey
     THEN [flags[j] EXCEPT !.showDetails = IF noDetails(flags[j]) THEN FALSE ELSE ~@]
     ELSE flags[j]]

\* handlePopOverCancel(event)
handlePopOverCancel(flags, elementKey) ==
  [j \in 1..Len(flags) |->
     IF flags[j].key = elementKey
     THEN [flags[j] EXCEPT !.showDetails = FALSE, !.isClicked = FALSE]
     ELSE flags[j]]

\* ---------------------------------------------------------------------
\* recordFlags (parent): handleChildRecordFlags
\*
\* The operators below work on a record S of the fields a handler can
\* write: S.fs (the fetchers), S.ef (existingFlag), S.he (haveErrors).
\* A reference [f |-> c, i |-> k] is the k-th object of fetcher c's list.
\* ---------------------------------------------------------------------

Deref(fs, ref) == fs[ref.f].list[ref.i]

\* mutant: the search looks at the bodies only, not at the whole serialization
existingIncludesCE_bodyOnly(S) ==
  \E j \in 1..Len(S.ef) :
    \E i \in 1..Len(Deref(S.fs, S.ef[j]).body) : Deref(S.fs, S.ef[j]).body[i] = CE

\* JSON.stringify(this.existingFlag).includes("Component Error")
existingIncludesCE(S) ==
  \E j \in 1..Len(S.ef) : StringifyIncludes(Deref(S.fs, S.ef[j]))

\* mutant: no comparison, every delivered body is appended
bodiesDiffer_always(existingBody, childBody) == TRUE

\* this.existingFlag[0].body !== childFlag.body
bodiesDiffer(existingBody, childBody) == existingBody # childBody

\* the body of the forEach callback for the k-th flag of fetcher c's list
acceptChildFlag(S, c, k) ==
  IF existingIncludesCE(S)
  THEN LET first == S.ef[1]
           existingBody == Deref(S.fs, first).body
           childBody == S.fs[c].list[k].body
       IN IF bodiesDiffer(existingBody, childBody)
          THEN [S EXCEPT !.fs[first.f].list[first.i].body = ConcatNewline(existingBody, childBody)]
          ELSE S
  ELSE [S EXCEPT !.ef = Append(@, [f |-> c, i |-> k])]

RECURSIVE childFlagLoop(_, _, _)
childFlagLoop(S, c, k) ==
  IF k > Len(S.fs[c].list) THEN S
  ELSE childFlagLoop(acceptChildFlag(S, c, k), c, k + 1)

\* handleChildRecordFlags(event) where event.detail is fetcher c's list
handleChildRecordFlags(S, c) ==
  IF Len(S.fs[c].list) > 0
  THEN [childFlagLoop(S, c, 1) EXCEPT !.he = TRUE]
  ELSE S

\* the template's onerrorreceive binding: the 'errorreceive' event a fetcher
\* dispatches is handled, synchronously, by handleChildRecordFlags
dispatchErrorReceive(S, c) == handleChildRecordFlags(S, c)

\* ---------------------------------------------------------------------
\* recordFlagFetcher: handleRecordFlags, handleError, the promise chain
\* ---------------------------------------------------------------------

\* mutant: the failure flag is kept in the fetcher's list but no
\* 'errorreceive' event is dispatched
routeFlag_noDispatch(S, c, value, index) ==
  LET flag == makeFlag(value, index)
  IN IF StringifyIncludes(value)
     THEN [S EXCEPT !.fs[c].list = Append(@, flag)]
     ELSE [S EXCEPT !.fs[c].listOfRecordFlags = Append(@, flag)]

\* mutant: a flag that is no failure is put in front of the fetcher's flags
\* (unshift) instead of behind them (push)
routeFlag_unshift(S, c, value, index) ==
  LET flag == makeFlag(value, index)
  IN IF StringifyIncludes(value)
     THEN dispatchErrorReceive(
            [S EXCEPT !.fs[c].list = Append(@, flag), !.fs[c].events = @ + 1,
                      !.fs[c].delivered = @ + Len(S.fs[c].list) + 1], c)
     ELSE [S EXCEPT !.fs[c].listOfRecordFlags = <<flag>> \o @]

\* mutant: a failure flag is reported and also kept with the other flags
routeFlag_both(S, c, value, index) ==
  LET flag == makeFlag(value, index)
  IN IF StringifyIncludes(value)
     THEN dispatchErrorReceive(
            [S EXCEPT !.fs[c].list = Append(@, flag), !.fs[c].events = @ + 1,
                      !.fs[c].delivered = @ + Len(S.fs[c].list) + 1,
                      !.fs[c].listOfRecordFlags = Append(@, flag)], c)
     ELSE [S EXCEPT !.fs[c].listOfRecordFlags = Append(@, flag)]

\* the forEach callback of handleRecordFlags for data[index] (0-based); events
\* counts the 'errorreceive' events dispatched and delivered the flags their
\* details held
routeFlag(S, c, value, index) ==
  LET flag == makeFlag(value, index)
  IN IF StringifyIncludes(value)
     THEN dispatchErrorReceive(
            [S EXCEPT !.fs[c].list = Append(@, flag), !.fs[c].events = @ + 1,
                      !.fs[c].delivered = @ + Len(S.fs[c].list) + 1], c)
     ELSE [S EXCEPT !.fs[c].listOfRecordFlags = Append(@, flag)]

RECURSIVE flagDataLoop(_, _, _, _)
flagDataLoop(S, c, data, index) ==
  IF index >= Len(data) THEN S
  ELSE flagDataLoop(routeFlag(S, c, data[index + 1], index), c, data, index + 1)

\* handleRecordFlags(data) for a list; a null data throws at data.length
handleRecordFlags(S, c, data) ==
  [flagDataLoop(S, c, data, 0) EXCEPT !.fs[c].loading = FALSE]

\* handleError(error): one toast with the composed message
handleError(S, c, error) ==
  [S EXCEPT !.fs[c].toasts = Append(@, errorMessage(error))]

\* mutant: the .catch callback reports the error but leaves loading as it is
catchCallback_keepLoading(S, c, error) ==
  [handleError(S, c, error) EXCEPT !.fs[c].status = "caught", !.fs[c].handled = @ + 1]

\* the .catch callback of getData
catchCallback(S, c, error) ==
  [handleError([S EXCEPT !.fs[c].loading = FALSE], c, error)
     EXCEPT !.fs[c].status = "caught", !.fs[c].handled = @ + 1]

\* mutant: the chain has no .catch, so a rejection or a throw of the .then
\* callback is left unhandled
settleGetFlags_noCatch(S, c, o) ==
  IF o.kind = "rejected" \/ o.isNull THEN [S EXCEPT !.fs[c].status = "unhandled"]
  ELSE [handleRecordFlags(S, c, o.value)
          EXCEPT !.fs[c].status = "fulfilled", !.fs[c].handled = @ + 1]

\* getFlags(...).then(handleRecordFlags).catch(...) once the promise settled
\* with outcome o: a rejection and a throw of the .then callback both reach
\* the .catch callback
settleGetFlags(S, c, o) ==
  IF o.kind = "rejected" THEN catchCallback(S, c, o.error)
  ELSE IF o.isNull THEN catchCallback(S, c, "TypeError")
  ELSE [handleRecordFlags(S, c, o.value)
          EXCEPT !.fs[c].status = "fulfilled", !.fs[c].handled = @ + 1]

\* mutant: getData() calls getFlags a second time
fetcherGetData_twice(f) == [f EXCEPT !.status = "pending", !.getFlagsCalls = @ + 2]

\* getData(): the getFlags call with the fetcher's record and mdtRecord
fetcherGetData(f) == [f EXCEPT !.status = "pending", !.getFlagsCalls = @ + 1]

\* JSON.parse(JSON.stringify(flag)): a new object with the flag's properties;
\* null (body, buttons) stays null and no property of a flag is undefined
jsonCopy(flag) ==
  [variant |-> flag.variant, header |-> flag.header, body |-> flag.body,
   buttons |-> flag.buttons, key |-> flag.key, showDetails |-> flag.showDetails,
   varientCSS |-> flag.varientCSS, hasButtons |-> flag.hasButtons,
   isClicked |-> flag.isClicked]

\* connectedCallback(); errorRecordFlag is {} when undefined, {flag} when set
fetcherConnectedCallback(f) ==
  IF f.record # 0 /\ f.mdtRecord # 0
  THEN fetcherGetData(f)
  ELSE [f EXCEPT !.listOfRecordFlags =
                   IF f.errorRecordFlag = {} THEN @
                   ELSE Append(@, jsonCopy(CHOOSE e \in f.errorRecordFlag : TRUE)),
                 !.loading = FALSE, !.status = "idle"]

\* ---------------------------------------------------------------------
\* recordFlags (parent): getData, handleError, lifecycle
\* ---------------------------------------------------------------------

\* mutant: the catalog and the shared payload are fetched by two calls
getData_twice(cs) == Append(Append(cs, "pending"), "pending")

\* getData(): one getActiveFlagsMdt call, whose promise is now pending
getData(cs) == Append(cs, "pending")

\* the template: one fetcher per unit descriptor of listOfActiveMdt, created
\* with the parent's record and the descriptor, and connected at once
renderFetchers(fs, run, sharedData, mdts) ==
  fs @@ [c \in { <<run, i>> : i \in 1..Len(mdts) } |->
           fetcherConnectedCallback(newFetcher(run, sharedData, mdts[c[2]]))]

\* the promise handleRefresh returns for the run it started: its executor
\* calls getData() and then resolve(true), so it is resolved when returned
refreshPromise(run) == [run |-> run, resolved |-> TRUE]

\* the template's error display: while haveErrors is set, one fetcher per
\* flag of existingFlag, created with that flag as errorRecordFlag and with
\* neither record nor mdtRecord, and connected at once; <<0, j>> is the one
\* for existingFlag[j]
renderErrorFetchers(S) ==
  IF S.he
  THEN [S EXCEPT !.fs = @ @@ [c \in { <<0, j>> : j \in 1..Len(S.ef) } |->
                            fetcherConnectedCallback(
                              [newFetcher(0, 0, 0) EXCEPT
                                 !.errorRecordFlag = { Deref(S.fs, S.ef[c[2]]) }])]]
  ELSE S

\* registerRefreshHandler(this, this.handleRefresh): the module keeps the
\* handler under the id it returns; the component has one handler, so one id
HandlerID == "registered"
registerRefreshHandler(reg) == reg \cup { HandlerID }

\* unregisterRefreshHandler(id)
unregisterRefreshHandler(reg, id) == reg \ { id }

\* the parent's handleError(error): one toast with the composed message
parentHandleError(ts, error) == Append(ts, errorMessage(error))

Init ==
  /\ connected = FALSE
  /\ refreshHandlerID = "none"
  /\ haveFlags = FALSE
  /\ haveErrors = FALSE
  /\ listOfActiveMdt = <<>>
  /\ existingFlag = <<>>
  /\ record = 0
  /\ toasts = <<>>
  /\ calls = <<>>
  /\ runs = 0
  /\ fetchers = [c \in {} |-> newFetcher(0, 0, 0)]
  /\ failureReasons = {}
  /\ refreshPromises = <<>>
  /\ registry = {}
  /\ pointerOver = {}
  /\ uiEvents = 0
  /\ lastEvent = NoEvent

\* the number of flags the getFlags calls of the fetchers in F have returned
RECURSIVE flagsReturned(_)
flagsReturned(F) ==
  IF F = {} THEN 0
  ELSE LET c == CHOOSE x \in F : TRUE
       IN Len(fetchers[c].result.value) + flagsReturned(F \ {c})

\* the size of the behaviour so far
work ==
  runs + Cardinality({ c \in DOMAIN fetchers : c[1] > 0 }) + flagsReturned(DOMAIN fetchers)
    + uiEvents

\* connectedCallback(): the component is inserted into the DOM
connectedCallback ==
  /\ ~connected
  /\ work < MaxWork
  /\ connected' = TRUE
  /\ runs' = runs + 1
  /\ calls' = getData(calls)
  /\ refreshHandlerID' = IF refreshHandlerID = "none" THEN HandlerID ELSE refreshHandlerID
  /\ registry' = IF refreshHandlerID = "none" THEN registerRefreshHandler(registry) ELSE registry
  /\ UNCHANGED <<haveFlags, haveErrors, listOfActiveMdt, existingFlag, record, toasts,
                 fetchers, failureReasons, refreshPromises, pointerOver,
                 uiEvents, lastEvent>>

\* disconnectedCallback(): the component is removed from the DOM
disconnectedCallback ==
  /\ connected
  /\ connected' = FALSE
  /\ registry' = IF refreshHandlerID # "none"
                 THEN unregisterRefreshHandler(registry, refreshHandlerID)
                 ELSE registry
  /\ UNCHANGED <<refreshHandlerID, haveFlags, haveErrors, listOfActiveMdt, existingFlag,
                 record, toasts, calls, runs, fetchers, failureReasons, refreshPromises,
                 pointerOver, uiEvents, lastEvent>>

\* handleRefresh(): a Refresh signal reaches the handler the refresh module
\* holds for the component
handleRefresh ==
  /\ registry # {}
  /\ work < MaxWork
  /\ runs' = runs + 1
  /\ calls' = getData(calls)
  /\ refreshPromises' = Append(refreshPromises, refreshPromise(runs'))
  /\ UNCHANGED <<connected, refreshHandlerID, haveFlags, haveErrors, listOfActiveMdt,
                 existingFlag, record, toasts, fetchers, failureReasons,
                 registry, pointerOver, uiEvents, lastEvent>>

\* the .then callback of getData: the k-th call is fulfilled with n unit
\* descriptors and the shared payload of that call
getDataThen(k, n) ==
  /\ calls[k] = "pending"
  /\ work + n <= MaxWork
  /\ calls' = [calls EXCEPT ![k] = "fulfilled"]
  /\ listOfActiveMdt' = [i \in 1..n |-> i]
  /\ record' = k
  /\ haveFlags' = TRUE
  /\ fetchers' = renderFetchers(fetchers, k, record', listOfActiveMdt')
  /\ UNCHANGED <<connected, refreshHandlerID, haveErrors, existingFlag, toasts, runs,
                 failureReasons, refreshPromises, registry, pointerOver,
                 uiEvents, lastEvent>>

\* the .catch callback of getData: the k-th call is rejected
getDataCatch(k, error) ==
  /\ calls[k] = "pending"
  /\ calls' = [calls EXCEPT ![k] = "rejected"]
  /\ toasts' = parentHandleError(toasts, error)
  /\ UNCHANGED <<connected, refreshHandlerID, haveFlags, haveErrors, listOfActiveMdt,
                 existingFlag, record, runs, fetchers, failureReasons,
                 refreshPromises, registry, pointerOver, uiEvents,
                 lastEvent>>

\* the getFlags promise of fetcher c settles with outcome o; the template is
\* rendered again once the handlers have run
fetcherSettles(c, o) ==
  /\ fetchers[c].status = "pending"
  /\ work + Len(o.value) <= MaxWork
  /\ LET S == renderErrorFetchers(
                settleGetFlags([fs |-> fetchers, ef |-> existingFlag, he |-> haveErrors], c, o))
     IN /\ fetchers' = [S.fs EXCEPT ![c].result = o]
        /\ existingFlag' = S.ef
        /\ haveErrors' = S.he
  /\ failureReasons' = failureReasons \cup
        { o.value[i].body : i \in { j \in 1..Len(o.value) : StringifyIncludes(o.value[j]) } }
  /\ UNCHANGED <<connected, refreshHandlerID, haveFlags, listOfActiveMdt, record, toasts,
                 calls, runs, refreshPromises, registry, pointerOver,
                 uiEvents, lastEvent>>

Next ==
  \/ connectedCallback
  \/ handleRefresh
  \/ \E k \in 1..Len(calls), n \in 0..(MaxWork - work) : getDataThen(k, n)
  \/ \E k \in 1..Len(calls), e \in ApexErrors : getDataCatch(k, e)
  \/ \E c \in DOMAIN fetchers, o \in Outcomes(MaxWork - work) : fetcherSettles(c, o)

\* the fields no badge or popover event writes
notUI == <<connected, refreshHandlerID, haveFlags, haveErrors, listOfActiveMdt,
           existingFlag, record, toasts, calls, runs, failureReasons, refreshPromises,
           registry>>

\* the keys of the badges fetcher c displays
badgeKeys(c) ==
  { fetchers[c].listOfRecordFlags[j].key : j \in 1..Len(fetchers[c].listOfRecordFlags) }

\* the badge with key in fetcher c is clicked
badgeClick(c, key) ==
  /\ key \in badgeKeys(c)
  /\ work < MaxWork
  /\ fetchers' = [fetchers EXCEPT ![c].listOfRecordFlags = handleBadgeClick(@, key)]
  /\ uiEvents' = uiEvents + 1
  /\ lastEvent' = Event("click", c, key)
  /\ UNCHANGED <<notUI, pointerOver>>

\* the pointer moves onto the badge with key in fetcher c
mouseOver(c, key) ==
  /\ key \in badgeKeys(c)
  /\ pointerOver = {}
  /\ work < MaxWork
  /\ fetchers' = [fetchers EXCEPT ![c].listOfRecordFlags = handleMouseOver(@, key)]
  /\ pointerOver' = { <<c, key>> }
  /\ uiEvents' = uiEvents + 1
  /\ lastEvent' = Event("mouseover", c, key)
  /\ UNCHANGED notUI

\* the pointer leaves the badge with key in fetcher c
mouseOut(c, key) ==
  /\ pointerOver = { <<c, key>> }
  /\ work < MaxWork
  /\ fetchers' = [fetchers EXCEPT ![c].listOfRecordFlags = handleMouseOut(@, key)]
  /\ pointerOver' = {}
  /\ uiEvents' = uiEvents + 1
  /\ lastEvent' = Event("mouseout", c, key)
  /\ UNCHANGED notUI

\* the close button of the popover of the flag with key in fetcher c is used
popOverCancel(c, key) ==
  /\ key \in badgeKeys(c)
  /\ work < MaxWork
  /\ fetchers' = [fetchers EXCEPT ![c].listOfRecordFlags = handlePopOverCancel(@, key)]
  /\ uiEvents' = uiEvents + 1
  /\ lastEvent' = Event("cancel", c, key)
  /\ UNCHANGED <<notUI, pointerOver>>

\* the component is inserted once and stays in the DOM
Spec == Init /\ [][Next]_vars

\* the component may also be removed from the DOM and inserted again
NextLifecycle == Next \/ disconnectedCallback

SpecLifecycle == Init /\ [][NextLifecycle]_vars

\* one run whose fetchers display flags, and the events of their badges and
\* popovers
NextUI ==
  \/ connectedCallback
  \/ \E k \in 1..Len(calls), n \in 0..(MaxWork - work) : getDataThen(k, n)
  \/ \E c \in DOMAIN fetchers, o \in UIOutcomes(MaxWork - work) : fetcherSettles(c, o)
  \/ \E c \in DOMAIN fetchers, key \in 0..MaxWork : badgeClick(c, key)
  \/ \E c \in DOMAIN fetchers, key \in 0..MaxWork : mouseOver(c, key)
  \/ \E c \in DOMAIN fetchers, key \in 0..MaxWork : mouseOut(c, key)
  \/ \E c \in DOMAIN fetchers, key \in 0..MaxWork : popOverCancel(c, key)

SpecUI == Init /\ [][NextUI]_vars

\* ---------------------------------------------------------------------
\* Properties
\* ---------------------------------------------------------------------

\* the body of the synthetic error flag (defined when existingFlag is non-empty)
errorBody == Deref(fetchers, existingFlag[1]).body

\* fetcher c returned at least one failure flag
reportedFailure(c) == fetchers[c].list # <<>>

\* every getActiveFlagsMdt call and every getFlags call has settled
allSettled ==
  /\ \A k \in 1..Len(calls) : calls[k] # "pending"
  /\ \A c \in DOMAIN fetchers : fetchers[c].status # "pending"

\* C1: after any sequence of child error notifications, from any number of
\* fetchers in any order, existingFlag holds no flag before the first failure
\* flag was reported and exactly one failure flag ever after.
C1_AtMostOneErrorFlag ==
  /\ Len(existingFlag) = IF failureReasons = {} THEN 0 ELSE 1
  /\ \A j \in 1..Len(existingFlag) : StringifyIncludes(Deref(fetchers, existingFlag[j]))

\* C1 witness: two fetchers reported failures, one of them two failure flags,
\* and existingFlag holds one flag.
C1_Witness ==
  /\ Len(existingFlag) = 1
  /\ \E c, d \in DOMAIN fetchers :
        c # d /\ Len(fetchers[c].list) = 2 /\ reportedFailure(d)

\* C2 (as claimed): the body of the synthetic error flag has exactly one
\* newline-separated entry per distinct reason reported.
C2_OneEntryPerDistinctReason ==
  Len(existingFlag) = 1 => Len(errorBody) = Cardinality(failureReasons)

\* C3: when every failure flag reported so far carries the same reason, there
\* is exactly one synthetic error flag and its body is that reason, once,
\* however often the failure was delivered again.
C3_IdenticalReasonOnce ==
  \A r \in failureReasons :
    failureReasons = {r} => Len(existingFlag) = 1 /\ errorBody = r

\* C3 witness: two fetchers reported the same reason, one of them twice (its
\* first failure flag was delivered again with the second), and the body
\* holds the reason once.
C3_Witness ==
  /\ failureReasons = { <<"A">> }
  /\ Len(existingFlag) = 1 /\ errorBody = <<"A">>
  /\ \E c, d \in DOMAIN fetchers :
        c # d /\ Len(fetchers[c].list) = 2 /\ reportedFailure(d)

\* C4 (as claimed): once everything has settled after a Refresh, the
\* aggregate holds only failures of the newest run: existingFlag refers to
\* flags of fetchers of that run and haveErrors tells whether one of them
\* reported a failure.
C4_AggregateOnlyNewestRun ==
  (runs >= 2 /\ allSettled /\ calls[runs] = "fulfilled") =>
    /\ \A j \in 1..Len(existingFlag) : fetchers[existingFlag[j].f].run = runs
    /\ haveErrors = (\E c \in DOMAIN fetchers : fetchers[c].run = runs /\ reportedFailure(c))

\* C5 (as claimed): when all catalog calls have settled and the most recently
\* started run's call succeeded, record (and with it listOfActiveMdt) holds
\* the response of that run.
C5_NewestResponseWins ==
  (runs >= 2 /\ (\A k \in 1..Len(calls) : calls[k] # "pending") /\ calls[runs] = "fulfilled") =>
    record = runs

\* the parent fields a fetcher's failure could reach
parentFields == <<haveFlags, haveErrors, listOfActiveMdt, existingFlag, record, toasts, calls>>

\* fetcher c's invocation fails in this step: its promise was pending and is
\* now settled otherwise than by a handled result
failsNow(c) ==
  /\ fetchers[c].status = "pending"
  /\ fetchers'[c].status \notin { "pending", "fulfilled" }

\* C6: a step in which one fetcher's invocation fails (its promise rejects or
\* its result handler throws) is caught, raises that fetcher's one toast,
\* leaves every other fetcher and the parent's fields as they were, and
\* leaves every pending sibling able to have its outcome accepted.
C6_FaultIsolation ==
  [][\A c \in DOMAIN fetchers :
       failsNow(c) =>
         /\ fetchers'[c].status = "caught"
         /\ fetchers'[c].loading = FALSE
         /\ Len(fetchers'[c].toasts) = Len(fetchers[c].toasts) + 1
         /\ DOMAIN fetchers' = DOMAIN fetchers
         /\ \A d \in DOMAIN fetchers : d # c => fetchers'[d] = fetchers[d]
         /\ parentFields' = parentFields
         /\ \A d \in DOMAIN fetchers :
              fetchers[d].status = "pending" /\ d # c => fetchers'[d].status = "pending"]_vars

\* C6 witness: one fetcher failed and a sibling of the same run had its
\* result accepted.
C6_Witness ==
  \E c, d \in DOMAIN fetchers :
    /\ c # d /\ fetchers[c].run = fetchers[d].run
    /\ fetchers[c].status = "caught" /\ fetchers[c].toasts # <<>>
    /\ fetchers[d].status = "fulfilled" /\ fetchers[d].listOfRecordFlags # <<>>

\* C7 (as claimed): a fetcher whose getFlags call was fulfilled with an empty
\* list or with null has no flags, is not loading, dispatched no
\* 'errorreceive' event and raised no toast.
C7_EmptyOrNullIsNoFailure ==
  \A c \in DOMAIN fetchers :
    (fetchers[c].result.kind = "fulfilled" /\ fetchers[c].result.value = <<>>) =>
      /\ fetchers[c].listOfRecordFlags = <<>>
      /\ fetchers[c].loading = FALSE
      /\ fetchers[c].events = 0
      /\ fetchers[c].toasts = <<>>

\* the result of fetcher c carries a failure flag
returnedFailure(c) ==
  \E i \in 1..Len(fetchers[c].result.value) : StringifyIncludes(fetchers[c].result.value[i])

C9_CatalogFailureExposesNothing ==
  [][\A k \in 1..Len(calls) :
       (k = runs /\ calls[k] = "pending" /\ calls'[k] = "rejected") =>
         /\ Len(toasts') = Len(toasts) + 1
         /\ fetchers' = fetchers
         /\ listOfActiveMdt' = <<>>]_vars

\* C10: every run makes exactly one getActiveFlagsMdt call, whatever the
\* number of fetchers, and every fetcher of a run was handed the shared
\* payload of that run's response, the one it passes to getFlags.
C10_SharedPayloadFetchedOnce ==
  /\ Len(calls) = runs
  /\ \A c \in DOMAIN fetchers : fetchers[c].record = fetchers[c].run
  /\ \A c, d \in DOMAIN fetchers :
       fetchers[c].run = fetchers[d].run => fetchers[c].record = fetchers[d].record

\* C10 witness: a run with two fetchers, both of which have called getFlags
\* and settled, after a second run was started.
C10_Witness ==
  /\ runs = 2
  /\ \E c, d \in DOMAIN fetchers :
       /\ c # d /\ fetchers[c].run = fetchers[d].run
       /\ fetchers[c].status = "fulfilled" /\ fetchers[d].status = "fulfilled"

\* the flags handleRecordFlags builds from a result, in the order of the result
builtFlags(data) == [i \in 1..Len(data) |-> makeFlag(data[i], i - 1)]

isFailure(flag) == StringifyIncludes(flag)
isNoFailure(flag) == ~StringifyIncludes(flag)

\* the flags of a result that are no failures, in the order of the result
nonFailureFlags(data) == SelectSeq(builtFlags(data), isNoFailure)

\* the flags run k displays: the listOfRecordFlags of its fetchers, taken in
\* the order of their descriptors in the response, for the first n of them
RECURSIVE displayedFlags(_, _)
displayedFlags(k, n) ==
  IF n = 0 THEN <<>>
  ELSE displayedFlags(k, n - 1) \o fetchers[<<k, n>>].listOfRecordFlags

\* the same for the flags the results of these fetchers hold
RECURSIVE catalogOrderFlags(_, _)
catalogOrderFlags(k, n) ==
  IF n = 0 THEN <<>>
  ELSE catalogOrderFlags(k, n - 1) \o nonFailureFlags(fetchers[<<k, n>>].result.value)

\* the number of fetchers rendered for the response of run k
unitsOf(k) == Cardinality({ c \in DOMAIN fetchers : c[1] = k })

\* C11: in whatever order the getFlags promises of a run settle, the flags
\* that are no failures, taken by the position of their unit in the response,
\* are the non-failure flags of the results in catalog order, and within one
\* unit they keep the order of its result.
C11_CompletionOrderIndependent ==
  /\ \A c \in DOMAIN fetchers :
       c[1] > 0 => fetchers[c].listOfRecordFlags = nonFailureFlags(fetchers[c].result.value)
  /\ \A k \in 1..runs : displayedFlags(k, unitsOf(k)) = catalogOrderFlags(k, unitsOf(k))

\* C11 witness: the second unit of a run has settled, with a flag that was
\* not the first of its result, while the first unit is still pending.
C11_Witness ==
  \E k \in 1..runs :
    /\ unitsOf(k) = 2
    /\ fetchers[<<k, 1>>].status = "pending"
    /\ fetchers[<<k, 2>>].status = "fulfilled"
    /\ \E j \in 1..Len(fetchers[<<k, 2>>].listOfRecordFlags) :
         fetchers[<<k, 2>>].listOfRecordFlags[j].key > 0

\* C12: a fetcher that called getFlags is loading exactly while its promise
\* is pending: loading is true from its creation, the step in which the
\* promise settles (fulfilled, rejected, or with a throwing handler) makes it
\* false, it never becomes true again, and while the promise stays pending
\* loading stays true.
C12_LoadingUntilOutcome ==
  [][\A c \in DOMAIN fetchers' :
       /\ fetchers'[c].loading = (fetchers'[c].status = "pending")
       /\ c \in DOMAIN fetchers =>
            /\ ~fetchers[c].loading => ~fetchers'[c].loading
            /\ (fetchers[c].status = "pending" /\ fetchers'[c].result # NotSettled) =>
                 ~fetchers'[c].loading
            /\ (fetchers[c].status = "pending" /\ fetchers'[c].result = NotSettled) =>
                 fetchers'[c].loading]_vars

\* C12 witness: one fetcher settled with a result, one with a rejection, and
\* neither is loading, while a third is still pending and loading.
C12_Witness ==
  \E c, d, e \in DOMAIN fetchers :
    /\ fetchers[c].status = "fulfilled" /\ ~fetchers[c].loading
    /\ fetchers[d].status = "caught" /\ ~fetchers[d].loading
    /\ fetchers[e].status = "pending" /\ fetchers[e].loading

\* C13 (as claimed): every Refresh started exactly one getActiveFlagsMdt
\* call, and a promise handleRefresh returned is resolved no earlier than
\* the call of the run it started has settled.
C13_RefreshPromiseSignalsCompletion ==
  /\ Len(calls) = runs
  /\ \A j \in 1..Len(refreshPromises) :
       /\ refreshPromises[j].run \in 1..Len(calls)
       /\ refreshPromises[j].resolved => calls[refreshPromises[j].run] # "pending"

\* C17: a fetcher connected with a record and a descriptor has called
\* getFlags exactly once, and has handled one outcome once its promise has
\* settled and none before; a fetcher connected without them never calls
\* getFlags, is not loading, and shows nothing but a copy of the
\* errorRecordFlag it was given, if it was given one.
C17_OneOutcomePerUnit ==
  \A c \in DOMAIN fetchers :
    IF fetchers[c].record # 0 /\ fetchers[c].mdtRecord # 0
    THEN /\ fetchers[c].getFlagsCalls = 1
         /\ fetchers[c].status \in { "pending", "fulfilled", "caught" }
         /\ (fetchers[c].status = "pending") = (fetchers[c].result = NotSettled)
         /\ fetchers[c].handled = IF fetchers[c].status = "pending" THEN 0 ELSE 1
    ELSE /\ fetchers[c].getFlagsCalls = 0
         /\ fetchers[c].result = NotSettled /\ fetchers[c].handled = 0
         /\ fetchers[c].status = "idle" /\ ~fetchers[c].loading
         /\ Len(fetchers[c].listOfRecordFlags) <= 1
         /\ fetchers[c].errorRecordFlag = {} => fetchers[c].listOfRecordFlags = <<>>
         /\ \A e \in fetchers[c].errorRecordFlag : fetchers[c].listOfRecordFlags = <<e>>

\* C17 witness: a fetcher with record and descriptor has had its result
\* handled, and a fetcher without them shows the copy of its errorRecordFlag.
C17_Witness ==
  \E c, d \in DOMAIN fetchers :
    /\ fetchers[c].record # 0 /\ fetchers[c].mdtRecord # 0
    /\ fetchers[c].getFlagsCalls = 1 /\ fetchers[c].handled = 1
    /\ fetchers[d].record = 0 /\ fetchers[d].mdtRecord = 0
    /\ Len(fetchers[d].listOfRecordFlags) = 1 /\ StringifyIncludes(fetchers[d].listOfRecordFlags[1])

\* C14 (as claimed): getFlags is called only for the unit descriptors the
\* catalog lookup of the current run returned: a step in which fetchers call
\* getFlags is the step in which the call of the newest run is fulfilled,
\* and each of them calls it for a descriptor of that response.
C14_OnlyCurrentCatalogInvoked ==
  [][\A c \in DOMAIN fetchers' \ DOMAIN fetchers :
       fetchers'[c].getFlagsCalls > 0 =>
         /\ calls[runs] = "pending" /\ calls'[runs] = "fulfilled"
         /\ \E i \in 1..Len(listOfActiveMdt') : listOfActiveMdt'[i] = fetchers'[c].mdtRecord]_vars

\* a is a prefix of b
isPrefix(a, b) == Len(a) <= Len(b) /\ SubSeq(b, 1, Len(a)) = a

\* C15: once the synthetic error flag exists it is never removed and stays
\* the first entry of existingFlag, haveErrors never goes from true to
\* false, and a step that changes the flag's body only appends to it: the
\* previous body is a prefix of the new one.
C15_ErrorFlagMonotone ==
  [][/\ haveErrors => haveErrors'
     /\ existingFlag # <<>> =>
          /\ existingFlag' # <<>> /\ existingFlag'[1] = existingFlag[1]
          /\ Len(existingFlag') >= Len(existingFlag)
          /\ isPrefix(errorBody, errorBody')]_vars

\* C15 witness: failures of two fetchers were accepted after the flag was
\* created, and its body has grown beyond the first reason.
C15_Witness ==
  /\ haveErrors /\ Len(existingFlag) = 1 /\ Len(errorBody) >= 2
  /\ \E c, d \in DOMAIN fetchers : c # d /\ reportedFailure(c) /\ reportedFailure(d)

\* the keys of a sequence of flags
keysOf(flags) == [j \in 1..Len(flags) |-> flags[j].key]

\* the flags of a result that are failures, in the order of the result
failureFlags(data) == SelectSeq(builtFlags(data), isFailure)

\* C16: every flag a fetcher's result holds went to exactly one place: a
\* flag whose serialization contains 'Component Error' is in the fetcher's
\* error list and not in listOfRecordFlags, and one 'errorreceive' event
\* was dispatched for it, whose detail was the error list as accumulated by
\* then; every other flag is in listOfRecordFlags and caused no event.
C16_FailureRouting ==
  \A c \in DOMAIN fetchers :
    c[1] > 0 =>
      /\ keysOf(fetchers[c].list) = keysOf(failureFlags(fetchers[c].result.value))
      /\ keysOf(fetchers[c].listOfRecordFlags) = keysOf(nonFailureFlags(fetchers[c].result.value))
      /\ \A j \in 1..Len(fetchers[c].list) : isFailure(fetchers[c].list[j])
      /\ \A j \in 1..Len(fetchers[c].listOfRecordFlags) :
           isNoFailure(fetchers[c].listOfRecordFlags[j])
      /\ fetchers[c].events = Len(fetchers[c].list)
      /\ 2 * fetchers[c].delivered = Len(fetchers[c].list) * (Len(fetchers[c].list) + 1)

\* C16 witness: one result held two failure flags and a flag that is none.
C16_Witness ==
  \E c \in DOMAIN fetchers :
    /\ Len(fetchers[c].list) = 2 /\ fetchers[c].events = 2 /\ fetchers[c].delivered = 3
    /\ Len(fetchers[c].listOfRecordFlags) = 1

\* C18 (as claimed): after any sequence of connected and disconnected
\* callbacks exactly one refresh handler is registered while the component
\* is connected and none while it is disconnected.
C18_HandlerFollowsLifecycle ==
  Cardinality(registry) = IF connected THEN 1 ELSE 0

\* the flag with key in fetcher c, before and after a step
flagOf(c, key) ==
  fetchers[c].listOfRecordFlags[
    CHOOSE j \in 1..Len(fetchers[c].listOfRecordFlags) :
      fetchers[c].listOfRecordFlags[j].key = key]

\* the step handles an event of the given type for the flag with key in c
handles(type, c, key) == uiEvents' = uiEvents + 1 /\ lastEvent' = Event(type, c, key)

\* C19: a clicked flag is pinned. A step that starts with the flag clicked
\* leaves isClicked true unless it is handlePopOverCancel for that flag; a
\* mouse-over or mouse-out on a clicked flag changes nothing of it, and
\* while it stays clicked its showDetails does not change;
\* handlePopOverCancel leaves isClicked and showDetails false, and
\* handleBadgeClick leaves isClicked true.
C19_ClickedFlagPinned ==
  [][\A c \in DOMAIN fetchers : \A key \in badgeKeys(c) :
       /\ (flagOf(c, key).isClicked /\ ~handles("cancel", c, key)) =>
            /\ flagOf(c, key)'.isClicked
            /\ flagOf(c, key)'.showDetails = flagOf(c, key).showDetails
       /\ (flagOf(c, key).isClicked
             /\ (handles("mouseover", c, key) \/ handles("mouseout", c, key))) =>
            flagOf(c, key)' = flagOf(c, key)
       /\ handles("cancel", c, key) =>
            ~flagOf(c, key)'.isClicked /\ ~flagOf(c, key)'.showDetails
       /\ handles("click", c, key) => flagOf(c, key)'.isClicked]_vars

\* C19 witness: the pointer has left the badge of a clicked flag, which is
\* still clicked and still shows its popover.
C19_Witness ==
  \E c \in DOMAIN fetchers : \E key \in badgeKeys(c) :
    /\ lastEvent = Event("mouseout", c, key)
    /\ flagOf(c, key).isClicked /\ flagOf(c, key).showDetails

\* C20 (as claimed): a flag with a body or buttons that is not clicked and
\* whose badge the pointer is not over does not show its popover.
C20_HoverConsistency ==
  \A c \in DOMAIN fetchers : \A key \in badgeKeys(c) :
    (~noDetails(flagOf(c, key)) /\ ~flagOf(c, key).isClicked /\ <<c, key>> \notin pointerOver) =>
      ~flagOf(c, key).showDetails

\* C21: after any sequence of click, mouse-over, mouse-out and cancel events
\* on the flags of a fetcher, every flag with no body (null or empty) and
\* hasButtons false has showDetails false.
C21_NoDetailsNeverShown ==
  \A c \in DOMAIN fetchers : \A j \in 1..Len(fetchers[c].listOfRecordFlags) :
    noDetails(fetchers[c].listOfRecordFlags[j]) =>
      ~fetchers[c].listOfRecordFlags[j].showDetails

\* C21 witness: a flag with neither body nor buttons was hovered and then
\* clicked while the pointer is over its badge, and shows no popover.
C21_Witness ==
  \E c \in DOMAIN fetchers : \E key \in badgeKeys(c) :
    /\ noDetails(flagOf(c, key)) /\ flagOf(c, key).isClicked
    /\ pointerOver = { <<c, key>> } /\ lastEvent = Event("click", c, key)
    /\ ~flagOf(c, key).showDetails

====
